---- MODULE Spec2Model ----
(***************************************************************************)
(* Model of the Riksbank Monetary Policy API client                        *)
(* (src/monetary_policy_api.py): riksbanken_request, its URL construction, *)
(* its retry loop over HTTP 429 and its handling of errors, run as         *)
(* asyncio coroutines that interleave at their await points.               *)
(*                                                                         *)
(* Text is modelled as a sequence of characters, each a one-character      *)
(* string; a few multi-letter words that consist only of letters and '_'   *)
(* ("data", "series_id", ...) and the base address are kept as one atom.   *)
(***************************************************************************)
EXTENDS Integers, Sequences, FiniteSets, TLC

(***************************************************************************)
(* Bounds of the model.                                                    *)
(***************************************************************************)
\* number of riksbanken_request coroutines that may run concurrently
NumCalls == 2
\* longest parameter value, in characters, that a caller passes
MaxValueLen == 3
Calls == 1..NumCalls

(***************************************************************************)
(* Program constants.                                                      *)
(***************************************************************************)
BASE_URL == <<"https://api.riksbank.se/monetary_policy_data/v1/forecasts">>

max_retries == 5

retry_delays == <<1, 2, 4, 8, 16>>

\* variant: urlencode called without safe
SafeNone == {}

\* the safe argument of urlencode at the call site
SafeColon == {":"}

(***************************************************************************)
(* urllib.parse.quote_plus / urlencode, as riksbanken_request uses them.   *)
(***************************************************************************)
\* characters urllib never quotes (letters, digits, '_.-~'); the atoms are
\* words made of such characters
AlwaysSafe == {"a", "3", "2024", "series_id", "policy_round", "data"}

\* '%XX' of the characters of the model that are not always safe
HexOf(ch) ==
    CASE ch = ":" -> <<"%", "3", "A">>
      [] ch = " " -> <<"%", "2", "0">>
      [] ch = "&" -> <<"%", "2", "6">>
      [] ch = "=" -> <<"%", "3", "D">>
      [] ch = "%" -> <<"%", "2", "5">>
      [] ch = "+" -> <<"%", "2", "B">>
      [] ch = "/" -> <<"%", "2", "F">>
      [] ch = "?" -> <<"%", "3", "F">>

RECURSIVE quote(_, _)
quote(s, safe) ==
    IF s = <<>> THEN <<>>
    ELSE (IF Head(s) \in AlwaysSafe \cup safe THEN <<Head(s)>> ELSE HexOf(Head(s)))
         \o quote(Tail(s), safe)

\* quote_plus: a space becomes '+', everything else as quote
quote_plus(s, safe) ==
    LET q == quote(s, safe \cup {" "})
    IN  [i \in 1..Len(q) |-> IF q[i] = " " THEN "+" ELSE q[i]]

\* urlencode(params, safe): 'k=v' of the quoted key and value, joined by '&'
RECURSIVE urlencode(_, _)
urlencode(query, safe) ==
    IF query = <<>> THEN <<>>
    ELSE LET k == query[1][1]
             v == query[1][2]
             kv == quote_plus(k, safe) \o <<"=">> \o quote_plus(v, safe)
         IN  IF Len(query) = 1 THEN kv
             ELSE kv \o <<"&">> \o urlencode(Tail(query), safe)

\* line 41: the query string of a call
QueryString(p) == urlencode(p, SafeColon)

\* variant: the slash and the suffix are appended without testing endpoint
FullUrlAlwaysSlash(e, p) ==
    LET url == BASE_URL \o <<"/">> \o e
        qs == QueryString(p)
    IN  IF qs # <<>> THEN url \o <<"?">> \o qs ELSE url

\* lines 37 and 42: the URL every attempt of a call requests
FullUrl(e, p) ==
    LET url == IF e # <<>> THEN BASE_URL \o <<"/">> \o e ELSE BASE_URL
        qs == QueryString(p)
    IN  IF qs # <<>> THEN url \o <<"?">> \o qs ELSE url

(***************************************************************************)
(* JSON values and response.json().                                        *)
(***************************************************************************)
NoValue == [t |-> "none", n |-> 0, items |-> <<>>]

\* the Python literal {}
EmptyObject == [t |-> "object", n |-> 0, items |-> <<>>]

JsonNumber(k) == [t |-> "number", n |-> k, items |-> <<>>]

JsonArray(xs) == [t |-> "array", n |-> 0, items |-> xs]

RECURSIVE SkipWs(_, _)
SkipWs(s, i) == IF i <= Len(s) /\ s[i] = " " THEN SkipWs(s, i + 1) ELSE i

\* one JSON value at position i of s: [ok, val, next]
RECURSIVE ParseValue(_, _)
ParseValue(s, i) ==
    LET bad == [ok |-> FALSE, val |-> NoValue, next |-> i]
    IN  IF i > Len(s) THEN bad
        ELSE CASE s[i] = "1" -> [ok |-> TRUE, val |-> JsonNumber(1), next |-> i + 1]
               [] s[i] = "{" ->
                    LET j == SkipWs(s, i + 1)
                    IN  IF j <= Len(s) /\ s[j] = "}"
                        THEN [ok |-> TRUE, val |-> EmptyObject, next |-> j + 1]
                        ELSE bad
               [] s[i] = "[" ->
                    LET j == SkipWs(s, i + 1)
                    IN  IF j <= Len(s) /\ s[j] = "]"
                        THEN [ok |-> TRUE, val |-> JsonArray(<<>>), next |-> j + 1]
                        ELSE LET inner == ParseValue(s, j)
                                 k == SkipWs(s, inner.next)
                             IN  IF inner.ok /\ k <= Len(s) /\ s[k] = "]"
                                 THEN [ok |-> TRUE, val |-> JsonArray(<<inner.val>>),
                                       next |-> k + 1]
                                 ELSE bad
               [] OTHER -> bad

\* response.json(): the value of the whole body, or a JSONDecodeError
JsonLoads(s) ==
    LET r == ParseValue(s, SkipWs(s, 1))
    IN  IF r.ok /\ SkipWs(s, r.next) = Len(s) + 1
        THEN [ok |-> TRUE, val |-> r.val]
        ELSE [ok |-> FALSE, val |-> NoValue]

(***************************************************************************)
(* What the network gives back to one client.get.                          *)
(***************************************************************************)
Contents == {<<>>, <<"{", "}">>, <<"1">>, <<"[", "1", "]">>, <<" ">>, <<"[">>}

Response(status, content) == [kind |-> "response", status |-> status, content |-> content]

\* an httpx.RequestError (ConnectError, ReadTimeout, RemoteProtocolError, ...)
TransportError == [kind |-> "transport", status |-> 0, content |-> <<>>]

Outcomes ==
    {Response(200, b) : b \in Contents}
    \cup {Response(st, <<>>) : st \in {204, 301, 404, 429, 500}}
    \cup {TransportError}

\* the outcomes the concurrent runs draw from; transport errors strike the
\* first call only
FaultyCalls == {1}

ConcOutcomes ==
    {Response(200, <<"1">>), Response(404, <<>>), Response(429, <<>>),
     Response(500, <<>>), TransportError}

\* Response.is_success
is_success(status) == status >= 200 /\ status <= 299

(***************************************************************************)
(* Exceptions and results of a call.                                       *)
(***************************************************************************)
NoError == [cls |-> "none", has_response |-> FALSE, status |-> 0]

\* raised by response.raise_for_status(); carries the response
HTTPStatusError(status) == [cls |-> "HTTPStatusError", has_response |-> TRUE, status |-> status]

\* raised by client.get(); an httpx.HTTPError without a response attribute
RequestError == [cls |-> "RequestError", has_response |-> FALSE, status |-> 0]

\* raised by response.json(); not an httpx.HTTPError
JSONDecodeError == [cls |-> "JSONDecodeError", has_response |-> FALSE, status |-> 0]

Pending == [kind |-> "none", value |-> NoValue, error |-> NoError]

Returned(v) == [kind |-> "return", value |-> v, error |-> NoError]

Raised(e) == [kind |-> "raise", value |-> NoValue, error |-> e]

(***************************************************************************)
(* State: one coroutine frame per call of riksbanken_request, the HTTP     *)
(* clients, and the frame of a get_policy_data call, if there is one. A    *)
(* frame holds the arguments and locals of the call and the log of what it *)
(* did:                                                                    *)
(*   pc        where the call is: idle (not yet called), awaiting          *)
(*             (client.get), sleeping (asyncio.sleep), returned, raised    *)
(*   endpoint  argument endpoint                                           *)
(*   params    argument params, a sequence of <<key, value>>               *)
(*   full_url  local full_url                                              *)
(*   attempt   loop variable attempt; -1 before the loop starts            *)
(*   client    the AsyncClient of the call; 0 before it is created         *)
(*   result    how the call ended                                          *)
(*   requests  log: the client.get calls issued, in order                  *)
(*   sleeps    log: the durations passed to asyncio.sleep, in order        *)
(*   hist      log: the outcomes of the call's requests, in order          *)
(***************************************************************************)
VARIABLES
    frame,      \* the frame of each call
    clients,    \* state of each AsyncClient object: unborn, open, closed
    tool        \* the frame of get_policy_data: pc, its arguments series_id
                \* and policy_round, the riksbanken_request calls it made
                \* (their arguments, and the call it awaits), its result

vars == <<frame, clients, tool>>

Terminal == {"returned", "raised"}

\* a call that has not started, with its arguments
IdleFrame(e, p) ==
    [pc |-> "idle", endpoint |-> e, params |-> p, full_url |-> <<>>,
     attempt |-> -1, client |-> 0, result |-> Pending, requests |-> <<>>,
     sleeps |-> <<>>, hist |-> <<>>]

(***************************************************************************)
(* The body of riksbanken_request as functions on a frame. A coroutine     *)
(* runs without interruption from one await to the next.                   *)
(***************************************************************************)
\* variant: one module-level client serves every call
NewClientShared(c) == 1

\* line 47: each call constructs its own httpx.AsyncClient
NewClient(c) == c

\* line 47: the client is open while the call is inside the async with
\* block and is closed when the call leaves it, by return or by raise
AsyncWith(newpc) == IF newpc \in Terminal THEN "closed" ELSE "open"

\* lines 55, 69, 78 and 66, 68, 74, 76: leave the function
Return(f, v) == [f EXCEPT !.pc = "returned", !.result = Returned(v)]

Raise(f, e) == [f EXCEPT !.pc = "raised", !.result = Raised(e)]

\* lines 48-51 and 78: the next iteration of the for loop issues the
\* request and awaits it; when range(max_retries) is exhausted the
\* function falls through to the final return {}
Iterate(f, isopen) ==
    IF f.attempt + 1 < max_retries
    THEN [f EXCEPT !.attempt = @ + 1,
                   !.requests = Append(@, [url |-> f.full_url, client |-> f.client,
                                           open |-> isopen]),
                   !.pc = "awaiting"]
    ELSE Return(f, EmptyObject)

\* variant: 404 is not told apart from the other error statuses
NotFoundNever(r) == FALSE

\* line 53
NotFound(r) == r.status = 404

\* line 57
RateLimited(r) == r.status = 429

\* variant: the last attempt is retried as well
AttemptsRemainAlways(att) == att < max_retries

\* line 59: attempts remain after a 429
AttemptsRemain(att) == att < max_retries - 1

\* variant: the schedule is indexed one entry too far
BackoffNext(att) == retry_delays[att + 2]

\* variant: the schedule is indexed by a counter all calls share, the
\* attempt index of the most advanced call
BackoffShared(att) ==
    LET most == CHOOSE a \in {frame[c].attempt : c \in Calls} :
                    \A b \in {frame[c].attempt : c \in Calls} : b <= a
    IN  retry_delays[most + 1]

\* line 60: the backoff of the current attempt index
Backoff(att) == retry_delays[att + 1]

\* lines 60-63: sleep before the next attempt
Sleep(f, wait) == [f EXCEPT !.pc = "sleeping", !.sleeps = Append(@, wait)]

\* variant: the handler does not re-raise on the last attempt
ExceptHTTPErrorNoLast(f, e, isopen) ==
    IF e.has_response /\ e.status # 429 THEN Raise(f, e)
    ELSE Iterate(f, isopen)

\* variant: the handler re-raises on the last attempt only
ExceptHTTPErrorLastOnly(f, e, isopen) ==
    IF f.attempt = max_retries - 1 THEN Raise(f, e)
    ELSE Iterate(f, isopen)

\* lines 71-76: the handler of httpx.HTTPError; a swallowed error ends the
\* iteration and the loop goes on
ExceptHTTPError(f, e, isopen) ==
    IF f.attempt = max_retries - 1 THEN Raise(f, e)
    ELSE IF e.has_response /\ e.status # 429 THEN Raise(f, e)
    ELSE Iterate(f, isopen)

\* variant: the body is parsed without looking at response.content
BodyAlwaysParsed(f, content) ==
    LET j == JsonLoads(content)
    IN  IF j.ok THEN Return(f, j.val) ELSE Raise(f, JSONDecodeError)

\* line 69: the value of a successful response
Body(f, content) ==
    IF content # <<>>
    THEN LET j == JsonLoads(content)
         IN  IF j.ok THEN Return(f, j.val) ELSE Raise(f, JSONDecodeError)
    ELSE Return(f, EmptyObject)

\* lines 66 and 68: response.raise_for_status(), then line 69
RaiseForStatus(f, r, isopen) ==
    IF is_success(r.status) THEN Body(f, r.content)
    ELSE ExceptHTTPError(f, HTTPStatusError(r.status), isopen)

\* lines 51-76: what the call does with the outcome r of client.get
OnOutcome(f, r, isopen) ==
    LET g == [f EXCEPT !.hist = Append(@, r)]
    IN  IF r.kind = "transport" THEN ExceptHTTPError(g, RequestError, isopen)
        ELSE IF NotFound(r) THEN Return(g, EmptyObject)
        ELSE IF RateLimited(r) /\ AttemptsRemain(g.attempt)
             THEN Sleep(g, Backoff(g.attempt))
        ELSE RaiseForStatus(g, r, isopen)

\* lines 37-51: the call starts, builds its URL, enters the client and
\* issues the first request
OnCall(f, c) ==
    Iterate([f EXCEPT !.full_url = FullUrl(f.endpoint, f.params),
                      !.client = NewClient(c)],
            TRUE)

\* variant: after the sleep the call sleeps again instead of continuing
OnWakeAsleep(f, isopen) == f

\* lines 62-63: the sleep is over, continue with the next iteration
OnWake(f, isopen) == Iterate(f, isopen)

(***************************************************************************)
(* get_policy_data (src/monetary_policy_tools.py) as functions on its      *)
(* frame. An optional string is [some, s]; None is the one with no string. *)
(***************************************************************************)
None == [some |-> FALSE, s |-> <<>>]

Some(str) == [some |-> TRUE, s |-> str]

\* no get_policy_data call in this run
NoTool ==
    [pc |-> "none", series_id |-> <<>>, policy_round |-> None, called |-> <<>>,
     callee |-> 0, result |-> Pending]

\* get_policy_data(series_id, policy_round), not started
IdleTool(series_id, policy_round) ==
    [NoTool EXCEPT !.pc = "idle", !.series_id = series_id, !.policy_round = policy_round]

\* variant: policy_round is tested against None only
PolicyParamsNotNone(series_id, policy_round) ==
    IF policy_round.some
    THEN <<<<<<"series_id">>, series_id>>, <<<<"policy_round">>, policy_round.s>>>>
    ELSE <<<<<<"series_id">>, series_id>>>>

\* lines 57-59: the parameter map; None and "" are both false
PolicyParams(series_id, policy_round) ==
    IF policy_round.some /\ policy_round.s # <<>>
    THEN <<<<<<"series_id">>, series_id>>, <<<<"policy_round">>, policy_round.s>>>>
    ELSE <<<<<<"series_id">>, series_id>>>>

\* line 60: riksbanken_request("data", params) is called as call c
OnToolCall(t, c) ==
    [t EXCEPT !.pc = "awaiting",
              !.called = Append(@, <<<<"data">>, PolicyParams(t.series_id, t.policy_round)>>),
              !.callee = c]

\* line 60: return await; what call c, now in frame g, gives to the
\* get_policy_data that awaits it
OnToolResume(t, c, g) ==
    IF t.callee = c /\ t.pc = "awaiting" /\ g.pc \in Terminal
    THEN [t EXCEPT !.pc = g.pc, !.result = g.result]
    ELSE t

(***************************************************************************)
(* Actions.                                                                *)
(***************************************************************************)
\* store g as the frame of call c; the client follows the async with, and
\* a get_policy_data that awaits the call goes on when the call has ended
Commit(c, g) ==
    /\ frame' = [frame EXCEPT ![c] = g]
    /\ clients' = [clients EXCEPT ![g.client] = AsyncWith(g.pc)]
    /\ tool' = OnToolResume(tool, c, g)

IsOpen(c) == clients[frame[c].client] = "open"

\* the calls to come, with their arguments a[c] = <<endpoint, params>> for
\* some assignment a of the set assignments
InitWith(assignments) ==
    /\ \E a \in assignments : frame = [c \in Calls |-> IdleFrame(a[c][1], a[c][2])]
    /\ clients = [k \in Calls |-> "unborn"]
    /\ tool = NoTool

\* riksbanken_request(endpoint, params) is called and runs to its first await
Call(c) ==
    /\ frame[c].pc = "idle"
    /\ Commit(c, OnCall(frame[c], c))

\* the awaited client.get of call c completes with outcome r
Receive(c, r) ==
    /\ frame[c].pc = "awaiting"
    /\ Commit(c, OnOutcome(frame[c], r, IsOpen(c)))

\* the same in the concurrent runs, where only the connections of the
\* calls in FaultyCalls break
ReceiveConc(c, r) ==
    /\ r.kind = "transport" => c \in FaultyCalls
    /\ Receive(c, r)

\* the awaited asyncio.sleep of call c completes
Wake(c) ==
    /\ frame[c].pc = "sleeping"
    /\ Commit(c, OnWake(frame[c], IsOpen(c)))

\* get_policy_data(series_id, policy_round) is called and runs, inside its
\* riksbanken_request call 1, to the first await
GetPolicyData ==
    /\ tool.pc = "idle"
    /\ frame[1].pc = "idle"
    /\ LET t == OnToolCall(tool, 1)
           args == t.called[Len(t.called)]
           g == OnCall(IdleFrame(args[1], args[2]), 1)
       IN  /\ frame' = [frame EXCEPT ![1] = g]
           /\ clients' = [clients EXCEPT ![g.client] = AsyncWith(g.pc)]
           /\ tool' = OnToolResume(t, 1, g)

(***************************************************************************)
(* Inputs.                                                                 *)
(***************************************************************************)
Endpoints == {<<>>, <<"data">>}

Keys == {<<"series_id">>, <<"policy_round">>}

ValueChars == {"2024", "3", ":", " ", "&", "%"}

RECURSIVE StringsUpTo(_)
StringsUpTo(n) ==
    IF n = 0 THEN {<<>>}
    ELSE LET shorter == StringsUpTo(n - 1)
         IN  shorter \cup {Append(s, ch) : s \in shorter, ch \in ValueChars}

Values == StringsUpTo(MaxValueLen)

\* the parameter maps: no key twice, in any order; of two values the
\* second is at most one character
ParamMaps ==
    {<<>>}
    \cup {<<<<k, v>>>> : k \in Keys, v \in Values}
    \cup {<<<<k1, v1>>, <<k2, v2>>>> :
            <<k1, k2>> \in {kk \in Keys \X Keys : kk[1] # kk[2]},
            <<v1, v2>> \in Values \X StringsUpTo(1)}

UrlInputs == Endpoints \X ParamMaps

\* the arguments the callers of the retry runs pass: riksbanken_request()
\* and riksbanken_request("data", {series_id: "a", policy_round: "2024:3"})
NoArgs == <<<<>>, <<>>>>

DataArgs ==
    <<<<"data">>,
      <<<<<<"series_id">>, <<"a">>>>, <<<<"policy_round">>, <<"2024", ":", "3">>>>>>>>

CallInputs == {NoArgs, DataArgs}

\* riksbanken_request("series") and riksbanken_request("", {series_id: "a"})
SeriesArgs == <<<<"series">>, <<>>>>

ParamsArgs == <<<<>>, <<<<<<"series_id">>, <<"a">>>>>>>>

\* the arguments of the call that runs alone
RetryInputs == CallInputs \cup {SeriesArgs, ParamsArgs}

(***************************************************************************)
(* Specifications.                                                         *)
(***************************************************************************)
\* concurrent calls; the first is given either argument list
Init == InitWith({[c \in Calls |-> IF c = 1 THEN i ELSE DataArgs] : i \in CallInputs})

Next ==
    \/ \E c \in Calls : Call(c)
    \/ \E c \in Calls, r \in ConcOutcomes : ReceiveConc(c, r)
    \/ \E c \in Calls : Wake(c)

Spec == Init /\ [][Next]_vars

\* one call, every outcome on every attempt; the other calls never start
NextCall ==
    \/ Call(1)
    \/ \E r \in Outcomes : Receive(1, r)
    \/ Wake(1)

InitCall == InitWith({[c \in Calls |-> IF c = 1 THEN i ELSE DataArgs] : i \in RetryInputs})

SpecCall == InitCall /\ [][NextCall]_vars

\* the same, when the call is started, every request it awaits is answered
\* or fails, and every sleep it awaits ends
SpecCallFair ==
    /\ SpecCall
    /\ WF_vars(Call(1))
    /\ WF_vars(\E r \in Outcomes : Receive(1, r))
    /\ WF_vars(Wake(1))

\* URL construction: the first call, for every endpoint and parameter map
InitUrl == InitWith({[c \in Calls |-> IF c = 1 THEN i ELSE NoArgs] : i \in UrlInputs})

NextUrl == Call(1)

SpecUrl == InitUrl /\ [][NextUrl]_vars

\* get_policy_data: one call for every series id and policy round
SeriesIds == {<<"a">>, <<"3">>}

PolicyRounds == {None, Some(<<>>), Some(<<"2024", ":", "3">>), Some(<<"a">>)}

InitTool ==
    /\ frame = [c \in Calls |-> IdleFrame(<<>>, <<>>)]
    /\ clients = [k \in Calls |-> "unborn"]
    /\ \E sid \in SeriesIds, pr \in PolicyRounds : tool = IdleTool(sid, pr)

NextTool ==
    \/ GetPolicyData
    \/ \E r \in Outcomes : Receive(1, r)
    \/ Wake(1)

SpecTool == InitTool /\ [][NextTool]_vars

TypeOK ==
    /\ \A c \in Calls : frame[c].pc \in {"idle", "awaiting", "sleeping", "returned", "raised"}
    /\ \A c \in Calls : frame[c].attempt \in -1..(max_retries - 1)
    /\ \A k \in Calls : clients[k] \in {"unborn", "open", "closed"}

(***************************************************************************)
(* Properties.                                                             *)
(***************************************************************************)
Is429(r) == r.kind = "response" /\ r.status = 429

Is404(r) == r.kind = "response" /\ r.status = 404

Is2xx(r) == r.kind = "response" /\ r.status >= 200 /\ r.status <= 299

IsOtherStatus(r) == r.kind = "response" /\ ~Is2xx(r) /\ ~Is404(r) /\ ~Is429(r)

IsTransport(r) == r.kind = "transport"

Last(h) == h[Len(h)]

Schedule == <<1, 2, 4, 8, 16>>

\* the waits owed for the first n outcomes of h: the schedule's entry of
\* index k - 1 for every 429 that is the k-th outcome, k <= 4
RECURSIVE WaitsOwed(_, _)
WaitsOwed(h, n) ==
    IF n = 0 THEN <<>>
    ELSE IF Is429(h[n]) /\ n <= 4 THEN Append(WaitsOwed(h, n - 1), Schedule[n])
    ELSE WaitsOwed(h, n - 1)

Rate429 == Response(429, <<>>)

\* C1: a 429 on attempt index i < 4 (the (i+1)-th outcome) is followed by
\* exactly one sleep of retry_delays[i] and then by attempt i + 1: the
\* sleeps of a call are the waits owed for its outcomes; while that sleep
\* lasts the call is still at attempt i with i + 1 requests issued, and
\* afterwards request i + 2 has been issued. For 429,429,429,429,200 the
\* call returns the parsed body after 5 requests and sleeps 1,2,4,8.
C1_BackoffThenRetry ==
    \A c \in Calls :
        LET f == frame[c]
            n == Len(f.hist)
        IN  /\ f.sleeps = WaitsOwed(f.hist, n)
            /\ \A k \in 1..n :
                  Is429(f.hist[k]) /\ k <= 4 =>
                     IF k = n /\ f.pc = "sleeping"
                     THEN f.attempt = k - 1 /\ Len(f.requests) = k
                     ELSE Len(f.requests) >= k + 1
            /\ f.pc = "sleeping" => n >= 1 /\ Is429(f.hist[n])
            /\ f.hist = <<Rate429, Rate429, Rate429, Rate429, Response(200, <<"[", "1", "]">>)>> =>
                  /\ f.pc = "returned"
                  /\ f.result = Returned(JsonArray(<<JsonNumber(1)>>))
                  /\ Len(f.requests) = 5
                  /\ f.sleeps = <<1, 2, 4, 8>>

C1_Witness ==
    \E c \in Calls :
        /\ frame[c].hist = <<Rate429, Rate429, Rate429, Rate429, Response(200, <<"[", "1", "]">>)>>
        /\ frame[c].pc = "returned"

\* C2: five consecutive 429 responses end the call in a raised
\* HTTPStatusError for status 429 after exactly 5 requests and 4 sleeps.
C2_FiveRateLimitsFail ==
    \A c \in Calls :
        LET f == frame[c]
        IN  f.hist = <<Rate429, Rate429, Rate429, Rate429, Rate429>> =>
               /\ f.pc = "raised"
               /\ f.result = Raised(HTTPStatusError(429))
               /\ Len(f.requests) = 5
               /\ f.sleeps = <<1, 2, 4, 8>>

C2_Witness ==
    \E c \in Calls :
        /\ frame[c].hist = <<Rate429, Rate429, Rate429, Rate429, Rate429>>
        /\ frame[c].pc = "raised"

\* C3: a 404 response on any attempt makes the call return {} with no
\* error, no sleep after it and no further request.
C3_NotFoundReturnsEmpty ==
    \A c \in Calls :
        LET f == frame[c]
            n == Len(f.hist)
        IN  \A k \in 1..n :
               Is404(f.hist[k]) =>
                  /\ k = n
                  /\ f.pc = "returned"
                  /\ f.result = Returned(EmptyObject)
                  /\ Len(f.requests) = k
                  /\ f.sleeps = WaitsOwed(f.hist, k - 1)

C3_Witness ==
    \E c \in Calls :
        /\ Len(frame[c].hist) = 3
        /\ Is429(frame[c].hist[1])
        /\ Is404(frame[c].hist[3])
        /\ frame[c].result = Returned(EmptyObject)

\* C4: a response whose status is neither 2xx, 404 nor 429, on any attempt,
\* makes the call raise at once: no sleep and no request follow it, and on
\* the first attempt the call has not slept at all.
C4_OtherStatusFailsAtOnce ==
    \A c \in Calls :
        LET f == frame[c]
            n == Len(f.hist)
        IN  \A k \in 1..n :
               IsOtherStatus(f.hist[k]) =>
                  /\ k = n
                  /\ f.pc = "raised"
                  /\ f.result = Raised(HTTPStatusError(f.hist[k].status))
                  /\ Len(f.requests) = k
                  /\ f.sleeps = WaitsOwed(f.hist, k - 1)
                  /\ k = 1 => f.sleeps = <<>>

C4_Witness ==
    \E c \in Calls :
        /\ Len(frame[c].hist) = 2
        /\ Is429(frame[c].hist[1])
        /\ frame[c].hist[2] = Response(500, <<>>)
        /\ frame[c].pc = "raised"

\* C5: a transport error on any attempt is propagated at once: it is the
\* last outcome of the call, the call has raised it, and so a call that met
\* a transport error never returns a value.
C5_TransportErrorPropagates ==
    \A c \in Calls :
        LET f == frame[c]
            n == Len(f.hist)
        IN  \A k \in 1..n :
               IsTransport(f.hist[k]) =>
                  /\ k = n
                  /\ f.pc = "raised"
                  /\ f.result = Raised(RequestError)
                  /\ Len(f.requests) = k

\* C6: for a 2xx response the call returns {} when the body is empty and
\* otherwise the JSON value of the body; an empty body never raises.
C6_SuccessBody ==
    \A c \in Calls :
        LET f == frame[c]
            n == Len(f.hist)
        IN  n >= 1 /\ Is2xx(f.hist[n]) =>
               LET content == f.hist[n].content
               IN  /\ content = <<>> => f.result = Returned(EmptyObject)
                   /\ content = <<"{", "}">> => f.result = Returned(EmptyObject)
                   /\ content = <<"1">> => f.result = Returned(JsonNumber(1))
                   /\ content = <<"[", "1", "]">> =>
                         f.result = Returned(JsonArray(<<JsonNumber(1)>>))
                   /\ content # <<>> /\ JsonLoads(content).ok =>
                         f.result = Returned(JsonLoads(content).val)

C6_Witness ==
    \E c \in Calls :
        /\ Len(frame[c].hist) = 2
        /\ frame[c].hist[2] = Response(200, <<>>)
        /\ frame[c].result = Returned(EmptyObject)

\* C7: one call issues at most 5 requests and sleeps at most 4 times.
C7_AtMostFiveRequests ==
    \A c \in Calls : Len(frame[c].requests) <= 5 /\ Len(frame[c].sleeps) <= 4

C7_Witness ==
    \E c \in Calls :
        /\ Len(frame[c].requests) = 5
        /\ Len(frame[c].sleeps) = 4
        /\ frame[c].pc \in Terminal

\* one outcome r met by a call that runs alone: a pending sleep ends first
ReplayOne(g, r) == OnOutcome(IF g.pc = "sleeping" THEN OnWake(g, TRUE) ELSE g, r, TRUE)

\* the replay of the outcomes h[1..n] by a call c that runs alone with the
\* arguments and the URL of f, from its first request on
RECURSIVE Replay(_, _, _, _)
Replay(f, c, h, n) ==
    IF n = 0
    THEN Iterate([IdleFrame(f.endpoint, f.params) EXCEPT !.full_url = f.full_url,
                                                         !.client = NewClient(c)],
                 TRUE)
    ELSE ReplayOne(Replay(f, c, h, n - 1), h[n])

\* the next step of call d, whatever it is
StepOf(d) ==
    \/ Call(d)
    \/ Receive(d, Response(200, <<"1">>))
    \/ Wake(d)

\* C8: a call has its own client, open before its first request; every
\* request of the call goes out on that client while it is open; no two
\* calls have the same client; a call that has ended, however it ended, has
\* closed its client.
C8_ClientScoped ==
    \A c \in Calls :
        LET f == frame[c]
        IN  /\ f.pc # "idle" => f.client # 0 /\ Len(f.requests) >= 1
            /\ \A k \in 1..Len(f.requests) :
                  f.requests[k].client = f.client /\ f.requests[k].open
            /\ f.pc \in {"awaiting", "sleeping"} => clients[f.client] = "open"
            /\ f.pc \in Terminal => clients[f.client] = "closed"
            /\ \A d \in Calls \ {c} : f.client # 0 => frame[d].client # f.client

C8_Witness ==
    \E c \in Calls, d \in Calls :
        /\ frame[c].pc = "raised"
        /\ Len(frame[c].requests) = 5
        /\ clients[frame[c].client] = "closed"
        /\ frame[d].pc = "returned"
        /\ Is404(Last(frame[d].hist))
        /\ clients[frame[d].client] = "closed"

\* C9: under every interleaving the frame of a call (attempt counter, sleep
\* durations, outcome) is what the call would have reached alone on the
\* outcomes of its own requests, up to the end of a pending sleep; and
\* while a call sleeps or awaits a response, every other call that has not
\* ended can take its next step.
C9_CallsIndependent ==
    /\ \A c \in Calls :
          LET f == frame[c]
              alone == Replay(f, c, f.hist, Len(f.hist))
          IN  f.pc # "idle" =>
                 \/ f = alone
                 \/ alone.pc = "sleeping" /\ f = OnWake(alone, TRUE)
    /\ \A d \in Calls :
          /\ frame[d].pc \notin Terminal
          /\ \E c \in Calls \ {d} : frame[c].pc \in {"awaiting", "sleeping"}
          => ENABLED StepOf(d)

C9_Witness ==
    \E c \in Calls, d \in Calls :
        /\ c # d
        /\ frame[c].pc = "sleeping"
        /\ frame[c].sleeps = <<1, 2>>
        /\ frame[d].pc = "awaiting"
        /\ frame[d].sleeps = <<1>>
        /\ frame[d].attempt = 2

(***************************************************************************)
(* Reading a query string back, as a server does (parse_qsl).              *)
(***************************************************************************)
\* the character that %XY stands for
Decoded(x, y) ==
    CASE <<x, y>> = <<"3", "A">> -> ":"
      [] <<x, y>> = <<"2", "0">> -> " "
      [] <<x, y>> = <<"2", "6">> -> "&"
      [] <<x, y>> = <<"3", "D">> -> "="
      [] <<x, y>> = <<"2", "5">> -> "%"
      [] <<x, y>> = <<"2", "B">> -> "+"
      [] OTHER -> "?"

RECURSIVE UnquotePlus(_)
UnquotePlus(s) ==
    IF s = <<>> THEN <<>>
    ELSE IF s[1] = "%" /\ Len(s) >= 3
         THEN <<Decoded(s[2], s[3])>> \o UnquotePlus(SubSeq(s, 4, Len(s)))
    ELSE IF s[1] = "+" THEN <<" ">> \o UnquotePlus(Tail(s))
    ELSE <<s[1]>> \o UnquotePlus(Tail(s))

\* position of the first ch in s from i on, or Len(s) + 1
RECURSIVE Find(_, _, _)
Find(s, ch, i) == IF i > Len(s) \/ s[i] = ch THEN i ELSE Find(s, ch, i + 1)

\* the pieces of s between the separators sep
RECURSIVE Split(_, _)
Split(s, sep) ==
    LET i == Find(s, sep, 1)
    IN  IF i > Len(s) THEN <<s>>
        ELSE <<SubSeq(s, 1, i - 1)>> \o Split(SubSeq(s, i + 1, Len(s)), sep)

\* the <<key, value>> pairs a query string carries
ParseQs(qs) ==
    IF qs = <<>> THEN <<>>
    ELSE LET pieces == Split(qs, "&")
         IN  [i \in 1..Len(pieces) |->
                 LET eq == Find(pieces[i], "=", 1)
                 IN  <<UnquotePlus(SubSeq(pieces[i], 1, eq - 1)),
                       UnquotePlus(SubSeq(pieces[i], eq + 1, Len(pieces[i])))>>]

\* what follows the first '?' of a URL
QueryOf(u) == SubSeq(u, Find(u, "?", 1) + 1, Len(u))

RECURSIVE Count(_, _)
Count(s, ch) ==
    IF s = <<>> THEN 0 ELSE (IF s[1] = ch THEN 1 ELSE 0) + Count(Tail(s), ch)

RECURSIVE ColonsIn(_)
ColonsIn(p) ==
    IF p = <<>> THEN 0
    ELSE Count(p[1][1], ":") + Count(p[1][2], ":") + ColonsIn(Tail(p))

\* C10: every colon of a parameter value is a literal ':' of the query
\* string and '%3A' never occurs in it (policy_round "2024:3" gives
\* "policy_round=2024:3"), while the other reserved characters are
\* percent-encoded: no space is left, '&' and '=' occur only as separators,
\* and decoding the query string gives back the parameter map.
C10_ColonsLiteral ==
    \A c \in Calls :
        LET f == frame[c]
            qs == QueryOf(f.full_url)
        IN  f.pc # "idle" =>
               /\ Count(qs, ":") = ColonsIn(f.params)
               /\ \A i \in 1..(Len(qs) - 2) : <<qs[i], qs[i + 1], qs[i + 2]>> # <<"%", "3", "A">>
               /\ Count(qs, " ") = 0
               /\ f.params # <<>> =>
                     /\ Count(qs, "&") = Len(f.params) - 1
                     /\ Count(qs, "=") = Len(f.params)
               /\ ParseQs(qs) = f.params
               /\ f.params = <<<<<<"policy_round">>, <<"2024", ":", "3">>>>>> =>
                     qs = <<"policy_round", "=", "2024", ":", "3">>

C10_Witness ==
    \E c \in Calls :
        /\ frame[c].pc # "idle"
        /\ frame[c].params = <<<<<<"policy_round">>, <<"2024", ":", "&">>>>, <<<<"series_id">>, <<"%">>>>>>
        /\ QueryOf(frame[c].full_url) =
              <<"policy_round", "=", "2024", ":", "%", "2", "6", "&", "series_id", "=", "%", "2", "5">>

\* Success, EmptyResult or Failure
Classification(res) ==
    CASE res.kind = "raise" -> "Failure"
      [] res.kind = "return" /\ res.value = EmptyObject -> "EmptyResult"
      [] res.kind = "return" /\ res.value # EmptyObject -> "Success"
      [] OTHER -> "none"

\* C11: two calls with the same endpoint and parameters that have ended
\* after the same sequence of outcomes have the same classification, the
\* same number of requests and the same sleep durations, whatever the
\* interleaving with each other and with the other calls.
C11_SameOutcomesSameResult ==
    \A c \in Calls, d \in Calls :
        LET f == frame[c]
            g == frame[d]
        IN  /\ c # d
            /\ f.pc \in Terminal /\ g.pc \in Terminal
            /\ f.endpoint = g.endpoint /\ f.params = g.params
            /\ f.hist = g.hist
            => /\ Classification(f.result) = Classification(g.result)
               /\ f.result = g.result
               /\ Len(f.requests) = Len(g.requests)
               /\ f.sleeps = g.sleeps

C11_Witness ==
    \E c \in Calls, d \in Calls :
        /\ c # d
        /\ frame[c].endpoint = frame[d].endpoint /\ frame[c].params = frame[d].params
        /\ frame[c].hist = <<Rate429, Rate429, Response(500, <<>>)>>
        /\ frame[d].hist = frame[c].hist
        /\ frame[c].pc = "raised" /\ frame[d].pc = "raised"
        /\ frame[c].sleeps = <<1, 2>>

\* the sleeps of call f that are over
CompletedSleeps(f) == IF f.pc = "sleeping" THEN Len(f.sleeps) - 1 ELSE Len(f.sleeps)

\* C12: the only way from attempt i to attempt i + 1 is a 429 on attempt i
\* and a sleep: every outcome but the last is a 429, and at every point the
\* requests issued are one more than the sleeps completed.
C12_RetryOnlyAfterSleep ==
    \A c \in Calls :
        LET f == frame[c]
        IN  f.pc # "idle" =>
               /\ Len(f.requests) = CompletedSleeps(f) + 1
               /\ \A k \in 1..(Len(f.requests) - 1) : Is429(f.hist[k])

\* C13: the schedule is indexed by an attempt index in 0..3 only: a call
\* that sleeps is at such an index and sleeps the entry of that index, no
\* sleep lasts 16 seconds, and the sleeps of a call increase strictly.
C13_ScheduleInRange ==
    \A c \in Calls :
        LET f == frame[c]
            m == Len(f.sleeps)
        IN  /\ f.pc = "sleeping" =>
                  /\ f.attempt \in 0..3
                  /\ f.sleeps[m] = Schedule[f.attempt + 1]
            /\ \A k \in 1..m : f.sleeps[k] \in {1, 2, 4, 8}
            /\ \A k \in 1..(m - 1) : f.sleeps[k] < f.sleeps[k + 1]

C13_Witness ==
    \E c \in Calls :
        /\ frame[c].pc = "sleeping"
        /\ frame[c].attempt = 3
        /\ frame[c].sleeps = <<2, 8>>

\* C14: a call returns {} only when its last outcome is a 404 or a 2xx
\* whose body is empty or is the text of {}; a call that has used up its 5
\* attempts on 429s and transport errors has raised, and a call that has
\* ended has an outcome for every request it issued.
C14_NoSilentEmptyResult ==
    \A c \in Calls :
        LET f == frame[c]
            n == Len(f.hist)
        IN  /\ f.result = Returned(EmptyObject) =>
                  /\ n >= 1
                  /\ \/ Is404(f.hist[n])
                     \/ Is2xx(f.hist[n]) /\ f.hist[n].content \in {<<>>, <<"{", "}">>}
            /\ f.pc \in Terminal => n = Len(f.requests)
            /\ n = 5 /\ (Is429(f.hist[n]) \/ IsTransport(f.hist[n])) =>
                  f.pc = "raised" /\ f.result.kind = "raise"

C14_Witness ==
    \E c \in Calls :
        /\ Len(frame[c].hist) = 5
        /\ IsTransport(frame[c].hist[5])
        /\ Is429(frame[c].hist[4])
        /\ frame[c].result = Raised(RequestError)

\* C15: when requests are answered and sleeps end, the call reaches a
\* terminal state; a call is in a terminal state exactly when it has one
\* outcome, a returned value or a raised error; and once there its frame
\* never changes again.
C15_Terminates ==
    /\ <>(frame[1].pc \in Terminal)
    /\ [](/\ frame[1].pc = "returned" <=> frame[1].result.kind = "return"
          /\ frame[1].pc = "raised" <=> frame[1].result.kind = "raise")
    /\ [][frame[1].pc \in Terminal => frame'[1] = frame[1]]_vars

C15_Witness ==
    /\ frame[1].pc = "raised"
    /\ Len(frame[1].hist) = 5
    /\ frame[1].sleeps = <<1, 2, 4, 8>>

\* C16: the URL of a call is the base address alone when the endpoint is
\* empty, else base + '/' + endpoint, followed by '?' + query string only
\* when the parameter map is not empty; full_url holds it from the first
\* attempt on and every request of the call, retries included, goes to it.
C16_UrlBuiltOnce ==
    \A c \in Calls :
        LET f == frame[c]
            base == IF f.endpoint = <<>> THEN BASE_URL ELSE BASE_URL \o <<"/">> \o f.endpoint
            expected == IF f.params = <<>> THEN base
                        ELSE base \o <<"?">> \o QueryString(f.params)
        IN  f.pc # "idle" =>
               /\ f.full_url = expected
               /\ \A k \in 1..Len(f.requests) : f.requests[k].url = expected
               /\ f.endpoint = <<>> /\ f.params = <<>> => f.full_url = BASE_URL
               /\ f.endpoint = <<"series">> /\ f.params = <<>> =>
                     f.full_url = BASE_URL \o <<"/", "series">>
               /\ f.endpoint = <<>> /\ f.params = <<<<<<"series_id">>, <<"a">>>>>> =>
                     f.full_url = BASE_URL \o <<"?", "series_id", "=", "a">>

C16_Witness ==
    \E c \in Calls :
        /\ frame[c].endpoint = <<>>
        /\ frame[c].params # <<>>
        /\ Len(frame[c].requests) = 3
        /\ frame[c].sleeps = <<1>>
        /\ \A k \in 1..3 : frame[c].requests[k].url = BASE_URL \o <<"?", "series_id", "=", "a">>

HasKey(p, key) == \E i \in 1..Len(p) : p[i][1] = key

\* C17: get_policy_data calls riksbanken_request exactly once, with suffix
\* 'data' and a parameter map that holds series_id always and policy_round
\* exactly when policy_round is a non-empty string; it ends when that call
\* ends, with the value or the error of that call.
C17_PolicyDataPassesThrough ==
    tool.pc \notin {"none", "idle"} =>
        LET args == tool.called[1]
            f == frame[tool.callee]
            given == tool.policy_round.some /\ tool.policy_round.s # <<>>
        IN  /\ Len(tool.called) = 1
            /\ args[1] = <<"data">>
            /\ args[2][1] = <<<<"series_id">>, tool.series_id>>
            /\ HasKey(args[2], <<"policy_round">>) <=> given
            /\ given => args[2] = <<<<<<"series_id">>, tool.series_id>>,
                                    <<<<"policy_round">>, tool.policy_round.s>>>>
            /\ ~given => Len(args[2]) = 1
            /\ f.endpoint = args[1] /\ f.params = args[2]
            /\ \A c \in Calls \ {tool.callee} : frame[c].pc = "idle"
            /\ tool.pc = "awaiting" <=> f.pc \notin Terminal
            /\ tool.pc = "awaiting" => tool.result = Pending
            /\ f.pc \in Terminal => tool.pc = f.pc /\ tool.result = f.result

C17_Witness ==
    /\ tool.pc = "raised"
    /\ tool.policy_round = Some(<<>>)
    /\ Len(tool.called) = 1
    /\ tool.result = Raised(HTTPStatusError(500))
    /\ Len(frame[1].hist) = 2

====
